---- MODULE Spec2Model ----
(***************************************************************************)
(* Model of the IoT cloud back end: the Error State Tracker                *)
(* (data_stream_error_check), the Notification Trigger                     *)
(* (notify_customer_check) and the Notification Dispatcher (emailer),      *)
(* together with the Mapping Store, its change stream and the emailer      *)
(* queue they communicate through.                                         *)
(*                                                                         *)
(* Python values are modelled as follows.  A dict is a function whose      *)
(* DOMAIN is the dict's key set ('k' in d  is  "k" \in DOMAIN d).  A       *)
(* number is a record [whole, frac]: the value whole + frac/10 with        *)
(* frac \in 0..9, so 22.2 is [whole |-> 22, frac |-> 2].  A raised         *)
(* exception is the result field of the invocation record.                 *)
(***************************************************************************)
EXTENDS Integers, Sequences, FiniteSets, TLC

\* ------------------------------------------------------------------------
\* Bounds of the model
\* ------------------------------------------------------------------------
MaxStream == 2
MaxBatch == 2
MaxMsgs == 2
MaxSends == 2
MaxStored == 2
MaxHours == 1
MaxRollups == 2
MaxInflight == 2

Devices == {"AAAA", "BBBB"}
Users == {"u1", "u2"}

\* ------------------------------------------------------------------------
\* Configuration (constants module) and fixed strings
\* ------------------------------------------------------------------------
LOWER_TEMP_LIMIT == 0
UPPER_TEMP_LIMIT == 85
LOWER_HUM_LIMIT == 0
UPPER_HUM_LIMIT == 100

SENSOR_ERROR_MSG == "An error occurred with a sensor"
OTHER_ERROR_MSG == "Another error message"

\* ------------------------------------------------------------------------
\* Python values
\* ------------------------------------------------------------------------
Num(w, f) == [whole |-> w, frac |-> f]

EmptyDict == [k \in {} |-> ""]

\* d[k] = v on a dict
SetAttr(d, k, v) == [x \in DOMAIN d \cup {k} |-> IF x = k THEN v ELSE d[x]]

\* x in range(lo, hi): x equals one of the integers lo, lo+1, ..., hi-1
InRange(x, lo, hi) == x.frac = 0 /\ lo <= x.whole /\ x.whole < hi

\* ------------------------------------------------------------------------
\* Inputs: reading events
\* ------------------------------------------------------------------------
TempInputs ==
    { Num(LOWER_TEMP_LIMIT - 1, 0), Num(LOWER_TEMP_LIMIT, 0), Num(22, 2),
      Num(UPPER_TEMP_LIMIT, 0), Num(90, 0) }

HumInputs ==
    { Num(LOWER_HUM_LIMIT, 0), Num(50, 0), Num(UPPER_HUM_LIMIT, 0) }

DataTopic(d) == <<"iot", "data", "1.0.0", d>>

ReadingEvents ==
    { [topic |-> DataTopic(d), temp |-> t, hum |-> h] :
          d \in Devices, t \in TempInputs, h \in HumInputs }
    \cup { [topic |-> DataTopic(d), temp |-> t] : d \in Devices, t \in TempInputs }
    \cup { [topic |-> DataTopic(d), hum |-> h] : d \in Devices, h \in HumInputs }
    \cup { [topic |-> DataTopic(d)] : d \in Devices }

\* ------------------------------------------------------------------------
\* State
\* ------------------------------------------------------------------------
VARIABLES
    mapping_table,   \* the Mapping Store: a set of items (dicts)
    stream,          \* change records of the Mapping Store not yet delivered
    queue,           \* the emailer queue: messages sent and not deleted
    next_handle,     \* receipt handle of the next message sent to the queue
    emails,          \* emails[h]: emails sent for the message with handle h
    last_reading,    \* last_reading[d]: sensor values of the last full reading
    last,            \* the last handler invocation: input, calls, result
    ack_failed,      \* handles whose delete failed after their email was sent
    sensor_data,     \* the sensor data table: the readings the IoT rule stored
    two_week,        \* the two-week table: the hourly summaries
    now,             \* the wall clock, seconds since the epoch
    handled,         \* handled[d]: timestamps of d's readings the Aggregator got
    rollup_count,    \* rollup_count[d][h]: aggregates written for hour h of d
    one_at_a_time,   \* no reading was handled before the earlier ones were
                     \* stored and handled, and none was handled twice
    in_order,        \* one at a time, and each reading newer than the earlier
    inflight         \* Tracker invocations that read the Mapping Entry and
                     \* have not written yet

\* what the Aggregator's invocations did so far (history)
hist_vars == <<handled, rollup_count, one_at_a_time, in_order>>

rollup_vars == <<sensor_data, two_week, now, hist_vars>>

vars == <<mapping_table, stream, queue, next_handle, emails, last_reading, last,
          ack_failed, sensor_data, two_week, now, hist_vars, inflight>>

\* ------------------------------------------------------------------------
\* Mapping Store (DynamoDB table with stream NEW_AND_OLD_IMAGES)
\* ------------------------------------------------------------------------
\* an item in the stream's attribute-value encoding: {'attr': {'S': value}}
Image(item) == [a \in DOMAIN item |-> [S |-> item[a]]]

InsertRecord(new) ==
    [eventName |-> "INSERT", dynamodb |-> [NewImage |-> Image(new)]]

ModifyRecord(old, new) ==
    [eventName |-> "MODIFY",
     dynamodb |-> [NewImage |-> Image(new), OldImage |-> Image(old)]]

\* a query that leaves the key condition out
QueryDeviceIndex_any_device(table, device_id) == table

\* table.query(IndexName="DeviceIndex", KeyConditionExpression=deviceID == d)
QueryDeviceIndex(table, device_id) == { it \in table : it.deviceID = device_id }

\* an update that is written twice: two change records for one change
UpdateItem_two_records(table, user_id, device_id, attr, v) ==
    LET hit == { it \in table : it.userID = user_id /\ it.deviceID = device_id }
    IN  IF hit = {}
        THEN LET new == SetAttr([userID |-> user_id, deviceID |-> device_id], attr, v)
             IN  [table |-> table \cup {new}, records |-> <<InsertRecord(new)>>]
        ELSE LET old == CHOOSE it \in hit : TRUE
                 new == SetAttr(old, attr, v)
             IN  [table |-> (table \ {old}) \cup {new},
                  records |-> IF new = old THEN <<>>
                              ELSE <<ModifyRecord(old, new), ModifyRecord(old, new)>>]

\* table.update_item(Key, "set <attr> = :v"): the table and the change records
\* the write adds to the stream (none when the item is left as it was)
UpdateItem(table, user_id, device_id, attr, v) ==
    LET hit == { it \in table : it.userID = user_id /\ it.deviceID = device_id }
    IN  IF hit = {}
        THEN LET new == SetAttr([userID |-> user_id, deviceID |-> device_id], attr, v)
             IN  [table |-> table \cup {new}, records |-> <<InsertRecord(new)>>]
        ELSE LET old == CHOOSE it \in hit : TRUE
                 new == SetAttr(old, attr, v)
             IN  [table |-> (table \ {old}) \cup {new},
                  records |-> IF new = old THEN <<>> ELSE <<ModifyRecord(old, new)>>]

\* ------------------------------------------------------------------------
\* Error State Tracker (data_stream_error_check)
\* ------------------------------------------------------------------------
\* the Items[0] the query may return, or the empty dict
get_user_mapping_by_device_id(table, device_id) ==
    IF QueryDeviceIndex(table, device_id) = {}
    THEN {EmptyDict}
    ELSE QueryDeviceIndex(table, device_id)

set_error_message_by_cognito_id(table, cognito_id, device_id, msg) ==
    UpdateItem(table, cognito_id, device_id, "error_msg", msg)

check_for_errors(device_id, event) ==
    LET inside_limits ==
            InRange(event.temp, LOWER_TEMP_LIMIT, UPPER_TEMP_LIMIT)
            /\ InRange(event.hum, LOWER_HUM_LIMIT, UPPER_HUM_LIMIT)
    IN  [error |-> ~inside_limits,
         msg |-> IF ~inside_limits THEN SENSOR_ERROR_MSG ELSE ""]

UpdateCall(cognito_id, device_id, msg) ==
    [op |-> "update_item", userID |-> cognito_id, deviceID |-> device_id,
     error_msg |-> msg]

\* the handler's effect for one choice of the query's first item:
\* the new table, the change records, the calls made and the result
error_check_handler(table, event, user_mapping) ==
    LET device_id == event.topic[4]
        NoOp(res) == [table |-> table, records |-> <<>>, calls |-> <<>>, result |-> res]
        Write(u, d, msg) ==
            LET w == set_error_message_by_cognito_id(table, u, d, msg)
            IN  [table |-> w.table, records |-> w.records,
                 calls |-> <<UpdateCall(u, d, msg)>>, result |-> "ok"]
    IN  IF {"temp", "hum"} \subseteq DOMAIN event
        THEN LET chk == check_for_errors(device_id, event)
             IN  IF chk.error
                 THEN IF DOMAIN user_mapping # {}
                      THEN IF "device_id" \in DOMAIN user_mapping
                           THEN Write(user_mapping.userID, user_mapping.device_id, chk.msg)
                           ELSE NoOp("KeyError")
                      ELSE NoOp("ok")
                 ELSE IF DOMAIN user_mapping # {}
                         /\ "error_msg" \in DOMAIN user_mapping
                         /\ user_mapping.error_msg # ""
                      THEN Write(user_mapping.userID, user_mapping.deviceID, "")
                      ELSE NoOp("ok")
        ELSE NoOp("ok")

\* ------------------------------------------------------------------------
\* Notification Trigger (notify_customer_check)
\* ------------------------------------------------------------------------
\* the str '' the handler starts old_msg and new_msg with
EmptyStr == [str |-> ""]

\* len(x) of a str (only ever compared with 0) or of a dict
PyLen(x) ==
    IF "str" \in DOMAIN x
    THEN (IF x.str = "" THEN 0 ELSE 1)
    ELSE Cardinality(DOMAIN x)

\* sqs.send_message(MessageBody=json.dumps({'cognitoID': cognito_id}))
send_email_notification(cognito_id) ==
    [op |-> "send_message", body |-> [cognitoID |-> cognito_id]]

\* notify_check_handler without the comparison of the old and new message
notify_check_handler_no_dedup(event) ==
    IF event.Records[1].eventName = "MODIFY"
    THEN LET dbentry == event.Records[1].dynamodb
         IN  IF "error_msg" \in DOMAIN dbentry.NewImage
                /\ PyLen(dbentry.NewImage.error_msg) > 0
             THEN <<send_email_notification(dbentry.NewImage.userID.S)>>
             ELSE <<>>
    ELSE <<>>

\* notify_check_handler without the test of the event name
notify_check_handler_any_event(event) ==
    LET dbentry == event.Records[1].dynamodb
    IN  IF "error_msg" \in DOMAIN dbentry.NewImage
        THEN LET old_msg == IF "OldImage" \in DOMAIN dbentry
                               /\ "error_msg" \in DOMAIN dbentry.OldImage
                            THEN dbentry.OldImage.error_msg
                            ELSE EmptyStr
                 new_msg == dbentry.NewImage.error_msg
             IN  IF PyLen(new_msg) > 0 /\ old_msg # new_msg
                 THEN <<send_email_notification(dbentry.NewImage.userID.S)>>
                 ELSE <<>>
        ELSE <<>>

\* notify_check_handler reading the last record of the batch
notify_check_handler_last_record(event) ==
    LET record == event.Records[Len(event.Records)]
    IN  IF record.eventName = "MODIFY"
        THEN LET dbentry == record.dynamodb
             IN  IF "error_msg" \in DOMAIN dbentry.NewImage
                 THEN LET old_msg == IF "error_msg" \in DOMAIN dbentry.OldImage
                                     THEN dbentry.OldImage.error_msg
                                     ELSE EmptyStr
                          new_msg == dbentry.NewImage.error_msg
                      IN  IF PyLen(new_msg) > 0 /\ old_msg # new_msg
                          THEN <<send_email_notification(dbentry.NewImage.userID.S)>>
                          ELSE <<>>
                 ELSE <<>>
        ELSE <<>>

\* the queue messages the handler sends for a change event
notify_check_handler(event) ==
    IF event.Records[1].eventName = "MODIFY"
    THEN LET dbentry == event.Records[1].dynamodb
         IN  IF "error_msg" \in DOMAIN dbentry.NewImage
             THEN LET old_msg == IF "error_msg" \in DOMAIN dbentry.OldImage
                                 THEN dbentry.OldImage.error_msg
                                 ELSE EmptyStr
                      new_msg == IF "error_msg" \in DOMAIN dbentry.NewImage
                                 THEN dbentry.NewImage.error_msg
                                 ELSE EmptyStr
                  IN  IF PyLen(new_msg) > 0 /\ old_msg # new_msg
                      THEN <<send_email_notification(dbentry.NewImage.userID.S)>>
                      ELSE <<>>
             ELSE <<>>
    ELSE <<>>

\* ------------------------------------------------------------------------
\* Notification Dispatcher (emailer)
\* ------------------------------------------------------------------------
\* the user directory: Attributes of the user whose sub is the key
UserPool ==
    [u \in Users |->
        IF u = "u1"
        THEN << [Name |-> "sub", Value |-> u],
                [Name |-> "email", Value |-> "u1@example.com"],
                [Name |-> "custom:firstname", Value |-> "Ann"] >>
        ELSE << [Name |-> "sub", Value |-> u],
                [Name |-> "email", Value |-> "u2@example.com"] >>]

\* email_templates.sensor_error
sensor_error ==
    [body |-> "Hello ###, a sensor reported a problem",
     subject |-> "Sensor error", sender |-> "noreply@example.com"]

\* the value the loop over Attributes leaves for a name ('' when not seen)
LastAttr(attrs, name) ==
    LET idx == { i \in DOMAIN attrs : attrs[i].Name = name }
    IN  IF idx = {} THEN ""
        ELSE attrs[CHOOSE i \in idx : \A j \in idx : j <= i].Value

get_user_details_by_cognito_id(cognito_id) ==
    IF cognito_id \in DOMAIN UserPool
    THEN [given_name |-> LastAttr(UserPool[cognito_id], "custom:firstname"),
          email_address |-> LastAttr(UserPool[cognito_id], "email")]
    ELSE [given_name |-> "", email_address |-> ""]

\* whether send_email calls send_raw_email at all
send_email_attempts(user_details) ==
    user_details.given_name # "" /\ user_details.email_address # ""
    /\ sensor_error.body # ""

SendCall(record, user_details, ok) ==
    [op |-> "send_raw_email", handle |-> record.receiptHandle,
     to |-> user_details.email_address, ok |-> ok]

DeleteCall(record, ok) ==
    [op |-> "delete_message", handle |-> record.receiptHandle, ok |-> ok]

\* emailer_record with the message deleted before the email is sent
emailer_record_ack_first(record, st, outcome) ==
    LET user_details == get_user_details_by_cognito_id(record.body.cognitoID)
        h == record.receiptHandle
        afterDelete ==
            [queue |-> IF outcome.delete THEN st.queue \ {record} ELSE st.queue,
             emails |-> st.emails,
             calls |-> Append(st.calls, DeleteCall(record, outcome.delete)),
             raised |-> FALSE]
    IN  IF send_email_attempts(user_details)
        THEN [queue |-> afterDelete.queue,
              emails |-> IF outcome.send
                         THEN [st.emails EXCEPT ![h] = @ + 1]
                         ELSE st.emails,
              calls |-> Append(afterDelete.calls,
                               SendCall(record, user_details, outcome.send)),
              raised |-> ~outcome.send]
        ELSE afterDelete

\* emailer_record that returns without the delete call when no email is due
emailer_record_no_ack_on_drop(record, st, outcome) ==
    LET user_details == get_user_details_by_cognito_id(record.body.cognitoID)
        h == record.receiptHandle
    IN  IF ~send_email_attempts(user_details)
        THEN [queue |-> st.queue, emails |-> st.emails, calls |-> st.calls,
              raised |-> FALSE]
        ELSE IF ~outcome.send
        THEN [queue |-> st.queue, emails |-> st.emails,
              calls |-> Append(st.calls, SendCall(record, user_details, FALSE)),
              raised |-> TRUE]
        ELSE [queue |-> IF outcome.delete THEN st.queue \ {record} ELSE st.queue,
              emails |-> [st.emails EXCEPT ![h] = @ + 1],
              calls |-> st.calls \o <<SendCall(record, user_details, TRUE),
                                      DeleteCall(record, outcome.delete)>>,
              raised |-> FALSE]

\* emailer_record that catches the mail service's error and goes on to the delete
emailer_record_send_error_swallowed(record, st, outcome) ==
    LET user_details == get_user_details_by_cognito_id(record.body.cognitoID)
        h == record.receiptHandle
        sends == send_email_attempts(user_details)
    IN  [queue |-> IF outcome.delete THEN st.queue \ {record} ELSE st.queue,
         emails |-> IF sends /\ outcome.send
                    THEN [st.emails EXCEPT ![h] = @ + 1]
                    ELSE st.emails,
         calls |-> (IF sends
                    THEN Append(st.calls, SendCall(record, user_details, outcome.send))
                    ELSE st.calls) \o <<DeleteCall(record, outcome.delete)>>,
         raised |-> FALSE]

\* emailer_record in which a failed delete is not caught
emailer_record_ack_error_raised(record, st, outcome) ==
    LET user_details == get_user_details_by_cognito_id(record.body.cognitoID)
        h == record.receiptHandle
        sends == send_email_attempts(user_details)
    IN  IF sends /\ ~outcome.send
        THEN [queue |-> st.queue, emails |-> st.emails,
              calls |-> Append(st.calls, SendCall(record, user_details, FALSE)),
              raised |-> TRUE]
        ELSE [queue |-> IF outcome.delete THEN st.queue \ {record} ELSE st.queue,
              emails |-> IF sends THEN [st.emails EXCEPT ![h] = @ + 1] ELSE st.emails,
              calls |-> (IF sends
                         THEN Append(st.calls, SendCall(record, user_details, TRUE))
                         ELSE st.calls) \o <<DeleteCall(record, outcome.delete)>>,
              raised |-> ~outcome.delete]

\* one iteration of the handler's loop.  st = [queue, emails, calls];
\* outcome = [send, delete]: whether the mail service and the queue service
\* accept the call.  raised: send_raw_email raised, the invocation is over.
emailer_record(record, st, outcome) ==
    LET cognito_id == record.body.cognitoID
        user_details == get_user_details_by_cognito_id(cognito_id)
        h == record.receiptHandle
        sends == send_email_attempts(user_details)
        afterSend ==
            IF sends
            THEN [queue |-> st.queue,
                  emails |-> IF outcome.send
                             THEN [st.emails EXCEPT ![h] = @ + 1]
                             ELSE st.emails,
                  calls |-> Append(st.calls, SendCall(record, user_details, outcome.send)),
                  raised |-> ~outcome.send]
            ELSE [queue |-> st.queue, emails |-> st.emails, calls |-> st.calls,
                  raised |-> FALSE]
    IN  IF afterSend.raised
        THEN afterSend
        ELSE IF "receiptHandle" \in DOMAIN record
             THEN [queue |-> IF outcome.delete
                             THEN afterSend.queue \ {record}
                             ELSE afterSend.queue,
                   emails |-> afterSend.emails,
                   calls |-> Append(afterSend.calls, DeleteCall(record, outcome.delete)),
                   raised |-> FALSE]
             ELSE afterSend

RECURSIVE emailer_loop(_, _, _, _)
\* for record in event['Records'], from index i on
emailer_loop(records, i, st, outcomes) ==
    IF i > Len(records)
    THEN [queue |-> st.queue, emails |-> st.emails, calls |-> st.calls,
          result |-> "ok"]
    ELSE LET r == emailer_record(records[i], st, outcomes[i])
         IN  IF r.raised
             THEN [queue |-> r.queue, emails |-> r.emails, calls |-> r.calls,
                   result |-> "ClientError"]
             ELSE emailer_loop(records, i + 1,
                               [queue |-> r.queue, emails |-> r.emails,
                                calls |-> r.calls], outcomes)

emailer_handler(event, q, em, outcomes) ==
    emailer_loop(event.Records, 1, [queue |-> q, emails |-> em, calls |-> <<>>],
                 outcomes)

\* ------------------------------------------------------------------------
\* Firmware Reconciler (data_stream_ota_sync)
\* ------------------------------------------------------------------------
\* Strings that matter character by character are sequences; a version
\* number is one element, "\n" and "\r" are the line-end characters.
RECURSIVE lstrip(_, _)
lstrip(str, c) ==
    IF str # <<>> /\ Head(str) = c THEN lstrip(Tail(str), c) ELSE str

RECURSIVE rstrip(_, _)
rstrip(str, c) ==
    IF str # <<>> /\ str[Len(str)] = c
    THEN rstrip(SubSeq(str, 1, Len(str) - 1), c)
    ELSE str

\* str.strip(c) for a single character c
strip(str, c) == rstrip(lstrip(str, c), c)

\* the target version: the content of version.txt, stripped
get_latest_version(version_file) == strip(strip(version_file, "\n"), "\r")

CommandTopic(device_id) == <<"iot", "commands", device_id>>

\* the OTA instruction: a presigned URL of the firmware file
do_ota(device_id) ==
    [op |-> "publish", topic |-> CommandTopic(device_id), qos |-> 1,
     payload |-> [ota |-> [Key |-> "your_firmware_file.bin", ExpiresIn |-> 300]]]

\* the time-sync instruction
send_time_sync(device_id, now_time) ==
    [op |-> "publish", topic |-> CommandTopic(device_id), qos |-> 1,
     payload |-> [time |-> now_time]]

\* ota_sync_handler with the time sync sent after either branch
ota_sync_handler_sync_always(table, event, version_file, now_time) ==
    LET device_id == event.topic[3]
    IN  IF "version" \in DOMAIN event
        THEN [table |-> table, records |-> <<>>,
              calls |-> (IF event.version # get_latest_version(version_file)
                         THEN <<do_ota(device_id)>> ELSE <<>>)
                        \o <<send_time_sync(device_id, now_time)>>,
              result |-> "TypeError"]
        ELSE [table |-> table, records |-> <<>>, calls |-> <<>>, result |-> "ok"]

\* ota_sync_handler with the Mapping Entry looked up before the time sync is
\* sent: the lookup raises and nothing is published
ota_sync_handler_lookup_first(table, event, version_file, now_time) ==
    LET device_id == event.topic[3]
    IN  IF "version" \in DOMAIN event
        THEN IF event.version # get_latest_version(version_file)
             THEN [table |-> table, records |-> <<>>,
                   calls |-> <<do_ota(device_id)>>, result |-> "ok"]
             ELSE [table |-> table, records |-> <<>>, calls |-> <<>>,
                   result |-> "TypeError"]
        ELSE [table |-> table, records |-> <<>>, calls |-> <<>>, result |-> "ok"]

\* data_stream_ota_sync.lambda_handler(event).  In the up-to-date branch the
\* call get_user_mapping_by_device_id() goes without its argument: it raises
\* TypeError before the table is read or written.
ota_sync_handler(table, event, version_file, now_time) ==
    LET topic == event.topic
        device_id == topic[3]
    IN  IF "version" \in DOMAIN event
        THEN LET current_version == event.version
                 latest_version == get_latest_version(version_file)
             IN  IF current_version # latest_version
                 THEN [table |-> table, records |-> <<>>,
                       calls |-> <<do_ota(device_id)>>, result |-> "ok"]
                 ELSE [table |-> table, records |-> <<>>,
                       calls |-> <<send_time_sync(device_id, now_time)>>,
                       result |-> "TypeError"]
        ELSE [table |-> table, records |-> <<>>, calls |-> <<>>, result |-> "ok"]

\* ------------------------------------------------------------------------
\* Hourly Rollup Aggregator (data_stream_two_week_writer)
\* ------------------------------------------------------------------------
\* round_time_down_to_hour(), the clock reading now_time
round_time_down_to_hour(now_time) == (now_time \div 3600) * 3600

\* the newest n items of a query result (Limit=n, ScanIndexForward=False)
Newest(items, n) ==
    { p \in items : Cardinality({ q \in items : q.timestamp > p.timestamp }) < n }

\* get_previous_sensor_data with ScanIndexForward=True: the oldest reading
get_previous_sensor_data_oldest(table, device_id, timestamp) ==
    LET items == { p \in table : p.deviceID = device_id /\ p.timestamp < timestamp }
    IN  IF Cardinality(items) > 0
        THEN CHOOSE p \in items : \A q \in items : p.timestamp <= q.timestamp
        ELSE EmptyDict

\* the last stored reading of the device before timestamp, or {}
get_previous_sensor_data(table, device_id, timestamp) ==
    LET items == { p \in table : p.deviceID = device_id /\ p.timestamp < timestamp }
    IN  IF Cardinality(items) > 0
        THEN CHOOSE p \in Newest(items, 1) : TRUE
        ELSE EmptyDict

\* Key('timestamp').between(start_time, end_time): both ends belong to it
get_last_hour_of_sensor_data(table, device_id, start_time, end_time) ==
    Newest({ p \in table : /\ p.deviceID = device_id
                           /\ start_time <= p.timestamp
                           /\ p.timestamp <= end_time }, 60)

\* int(x): the fraction is cut off, towards zero
TruncInt(x) == IF x.whole < 0 /\ x.frac > 0 THEN x.whole + 1 ELSE x.whole

\* x in tenths
Tenths(x) == 10 * x.whole + x.frac

\* int(point['temp']) in range(...) and int(point['hum']) in range(...)
inside_limits(point) ==
    /\ LOWER_TEMP_LIMIT <= TruncInt(point.temp)
    /\ TruncInt(point.temp) < UPPER_TEMP_LIMIT
    /\ LOWER_HUM_LIMIT <= TruncInt(point.hum)
    /\ TruncInt(point.hum) < UPPER_HUM_LIMIT

RECURSIVE SumTenths(_, _)
\* the sum of an attribute over a set of points, in tenths
SumTenths(points, attr) ==
    IF points = {} THEN 0
    ELSE LET p == CHOOSE q \in points : TRUE
         IN  Tenths(p[attr]) + SumTenths(points \ {p}, attr)

\* the summary: each average is the fraction num / den; {} without valid points
calculate_average_from_set(data_set) ==
    LET valid == { point \in data_set : inside_limits(point) }
        valid_count == Cardinality(valid)
    IN  IF valid_count > 0
        THEN [temp |-> [num |-> SumTenths(valid, "temp"), den |-> 10 * valid_count],
              hum |-> [num |-> SumTenths(valid, "hum"), den |-> 10 * valid_count]]
        ELSE EmptyDict

\* num / den with the fraction dropped
RoundDown(num, den) == num \div den

\* num / den rounded to an integer, a tie to the even neighbour
RoundHalfEven(num, den) ==
    LET q == num \div den
        r == num % den
    IN  IF 2 * r < den THEN q
        ELSE IF 2 * r > den THEN q + 1
        ELSE IF q % 2 = 0 THEN q ELSE q + 1

\* the item write_two_week_data puts; temp is kept in hundredths
TwoWeekItem(device_id, summary, now_time) ==
    [deviceID |-> device_id,
     timestamp |-> round_time_down_to_hour(now_time),
     temp |-> RoundHalfEven(100 * summary.temp.num, summary.temp.den),
     hum |-> RoundHalfEven(summary.hum.num, summary.hum.den),
     expiretimestamp |-> round_time_down_to_hour(now_time) + (14 * 24 * 60 * 60)]

\* put_item: the item replaces the one with its key
write_two_week_data(table, device_id, summary, now_time) ==
    LET item == TwoWeekItem(device_id, summary, now_time)
    IN  { p \in table : ~(p.deviceID = item.deviceID /\ p.timestamp = item.timestamp) }
        \cup {item}

QueryCall(start_time, end_time) ==
    [op |-> "query_between", start |-> start_time, end |-> end_time]

NoRollup(table, last_data_point) ==
    [two_week |-> table, last_data_point |-> last_data_point, hour_of_data |-> {},
     summary |-> EmptyDict, calls |-> <<>>, result |-> "ok"]

\* two_week_update_check that summarizes whenever a previous point exists
two_week_update_check_every_reading(sensor, table, device_id, event, now_time) ==
    LET last_data_point == get_previous_sensor_data(sensor, device_id, event.timestamp)
    IN  IF DOMAIN last_data_point # {}
        THEN LET prev_hour_start == (last_data_point.timestamp \div 3600) * 3600
                 hour_of_data == get_last_hour_of_sensor_data(
                                     sensor, device_id, prev_hour_start,
                                     prev_hour_start + 3600)
                 summary == calculate_average_from_set(hour_of_data)
             IN  [two_week |-> IF DOMAIN summary # {}
                               THEN write_two_week_data(table, device_id, summary, now_time)
                               ELSE table,
                  last_data_point |-> last_data_point,
                  hour_of_data |-> hour_of_data,
                  summary |-> summary,
                  calls |-> <<QueryCall(prev_hour_start, prev_hour_start + 3600)>>
                            \o (IF DOMAIN summary # {}
                                THEN <<[op |-> "put_item",
                                        Item |-> TwoWeekItem(device_id, summary, now_time)]>>
                                ELSE <<>>),
                  result |-> "ok"]
        ELSE NoRollup(table, last_data_point)

\* two_week_update_check that summarizes the hour before the new reading's
two_week_update_check_hour_before(sensor, table, device_id, event, now_time) ==
    LET last_data_point == get_previous_sensor_data(sensor, device_id, event.timestamp)
    IN  IF DOMAIN last_data_point # {}
           /\ event.timestamp \div 3600 > last_data_point.timestamp \div 3600
        THEN LET prev_hour_start == ((event.timestamp \div 3600) - 1) * 3600
                 hour_of_data == get_last_hour_of_sensor_data(
                                     sensor, device_id, prev_hour_start,
                                     prev_hour_start + 3600)
                 summary == calculate_average_from_set(hour_of_data)
             IN  [two_week |-> IF DOMAIN summary # {}
                               THEN write_two_week_data(table, device_id, summary, now_time)
                               ELSE table,
                  last_data_point |-> last_data_point,
                  hour_of_data |-> hour_of_data,
                  summary |-> summary,
                  calls |-> <<QueryCall(prev_hour_start, prev_hour_start + 3600)>>
                            \o (IF DOMAIN summary # {}
                                THEN <<[op |-> "put_item",
                                        Item |-> TwoWeekItem(device_id, summary, now_time)]>>
                                ELSE <<>>),
                  result |-> "ok"]
        ELSE NoRollup(table, last_data_point)

\* two_week_update_check(device_id, event) on the reading table sensor and the
\* rollup table
two_week_update_check(sensor, table, device_id, event, now_time) ==
    LET last_data_point == get_previous_sensor_data(sensor, device_id, event.timestamp)
    IN  IF DOMAIN last_data_point # {}
        THEN LET hour_when_current_data_occurred == event.timestamp \div 3600
                 hour_when_previous_data_occurred == last_data_point.timestamp \div 3600
             IN  IF hour_when_current_data_occurred > hour_when_previous_data_occurred
                 THEN LET prev_hour_start == hour_when_previous_data_occurred * 3600
                          prev_hour_end == prev_hour_start + 3600
                          hour_of_data == get_last_hour_of_sensor_data(
                                              sensor, device_id, prev_hour_start,
                                              prev_hour_end)
                          summary == calculate_average_from_set(hour_of_data)
                      IN  [two_week |->
                               IF DOMAIN summary # {}
                               THEN write_two_week_data(table, device_id, summary, now_time)
                               ELSE table,
                           last_data_point |-> last_data_point,
                           hour_of_data |-> hour_of_data,
                           summary |-> summary,
                           calls |-> <<QueryCall(prev_hour_start, prev_hour_end)>>
                                     \o (IF DOMAIN summary # {}
                                         THEN <<[op |-> "put_item",
                                                 Item |-> TwoWeekItem(device_id, summary,
                                                                      now_time)]>>
                                         ELSE <<>>),
                           result |-> "ok"]
                 ELSE NoRollup(table, last_data_point)
        ELSE NoRollup(table, last_data_point)

\* two_week_handler that only asks for 'temp' in the event
two_week_handler_temp_only(sensor, table, event, now_time) ==
    LET device_id == event.topic[4]
    IN  IF "temp" \in DOMAIN event
        THEN two_week_update_check(sensor, table, device_id, event, now_time)
        ELSE NoRollup(table, EmptyDict)

\* data_stream_two_week_writer.lambda_handler(event)
two_week_handler(sensor, table, event, now_time) ==
    LET device_id == event.topic[4]
    IN  IF "temp" \in DOMAIN event /\ "hum" \in DOMAIN event
        THEN two_week_update_check(sensor, table, device_id, event, now_time)
        ELSE NoRollup(table, EmptyDict)

\* ------------------------------------------------------------------------
\* Inputs: change events and queue events
\* ------------------------------------------------------------------------
ErrorMsgs == {"", SENSOR_ERROR_MSG, OTHER_ERROR_MSG}

\* the items of key (u, d), with and without an error_msg attribute
ItemsOf(u, d, msgs) ==
    { [userID |-> u, deviceID |-> d] }
    \cup { [userID |-> u, deviceID |-> d, error_msg |-> m] : m \in msgs }

\* change records a stream of the Mapping Store can carry
HeadRecords ==
    UNION { { InsertRecord(new) : new \in ItemsOf(u, "AAAA", ErrorMsgs) }
            \cup { ModifyRecord(old, new) :
                       old \in ItemsOf(u, "AAAA", ErrorMsgs),
                       new \in ItemsOf(u, "AAAA", ErrorMsgs) }
            : u \in Users }

\* records that follow the first one of a batch
TailRecords ==
    { ModifyRecord([userID |-> u, deviceID |-> "BBBB", error_msg |-> ""],
                   [userID |-> u, deviceID |-> "BBBB", error_msg |-> SENSOR_ERROR_MSG])
          : u \in Users }
    \cup { InsertRecord([userID |-> "u1", deviceID |-> "BBBB"]) }

ChangeEvents ==
    UNION { { [Records |-> <<hd>> \o tl] : hd \in HeadRecords, tl \in [1..n -> TailRecords] }
            : n \in 0..(MaxBatch - 1) }

\* the sequences of 1..n distinct elements of S
Batches(S, n) ==
    UNION { { b \in [1..k -> S] : \A i, j \in 1..k : i # j => b[i] # b[j] }
            : k \in 1..n }

Outcomes == [send : BOOLEAN, delete : BOOLEAN]

Min(a, b) == IF a < b THEN a ELSE b

\* version reports: the topic of the module docstring, and the shorter one of
\* the handler's comment
VersionTopics(d) == { <<"iot", "version", "1.0.0", d>>, <<"iot", "version", d>> }

ReportedVersions == { <<"1.0.0">>, <<"1.0.1">>, <<"1.0.0", "\r", "\n">> }

\* contents of version.txt
VersionFiles ==
    { <<"1.0.0">>, <<"1.0.0", "\n">>, <<"1.0.1", "\r", "\n">>,
      <<"1.0.0", "\r", "\n", "\r", "\n">> }

VersionEvents ==
    UNION { { [topic |-> t, version |-> v] : v \in ReportedVersions } \cup { [topic |-> t] }
            : t \in UNION { VersionTopics(d) : d \in Devices } }

\* timestamps of readings: two in one hour, its last second, the first second
\* of the next hour, and one two hours on
Timestamps == {3700, 7199, 7200, 10900}

\* temperature and humidity of a reading: whole and in bounds, with a
\* fraction, out of bounds, just below zero
Samples ==
    { [temp |-> Num(22, 0), hum |-> Num(50, 0)],
      [temp |-> Num(22, 2), hum |-> Num(50, 6)],
      [temp |-> Num(90, 0), hum |-> Num(50, 0)],
      [temp |-> Num(-1, 5), hum |-> Num(50, 0)] }

\* the items the ingest rule stores: any reading of one device, and two
\* readings of another
StoredReadings ==
    { [deviceID |-> "AAAA", timestamp |-> t, temp |-> x.temp, hum |-> x.hum] :
          t \in Timestamps, x \in Samples }
    \cup { [deviceID |-> "BBBB", timestamp |-> t, temp |-> Num(22, 0), hum |-> Num(50, 0)] :
              t \in {3700, 7200} }

\* the events the Aggregator gets: readings, and messages without temp or hum
TimedEvents ==
    { [topic |-> DataTopic(d), timestamp |-> t, temp |-> Num(22, 0), hum |-> Num(50, 0)] :
          d \in Devices, t \in Timestamps }
    \cup { [topic |-> DataTopic(d), timestamp |-> 7200, temp |-> Num(22, 0)] : d \in Devices }
    \cup { [topic |-> DataTopic(d), timestamp |-> 7200, hum |-> Num(50, 0)] : d \in Devices }

\* ------------------------------------------------------------------------
\* Whether a reading is within the configured bounds, as numbers
\* ------------------------------------------------------------------------
WithinBounds(x, lo, hi) == lo <= x.whole /\ x.whole < hi

ReadingWithinBounds(event) ==
    WithinBounds(event.temp, LOWER_TEMP_LIMIT, UPPER_TEMP_LIMIT)
    /\ WithinBounds(event.hum, LOWER_HUM_LIMIT, UPPER_HUM_LIMIT)

\* ------------------------------------------------------------------------
\* Initial state and actions
\* ------------------------------------------------------------------------
FirstNow == 7300

\* the hour buckets of the readings' timestamps
HourBuckets == { t \div 3600 : t \in Timestamps }

Init ==
    /\ mapping_table = {}
    /\ stream = <<>>
    /\ queue = {}
    /\ next_handle = 1
    /\ emails = [h \in 1..MaxMsgs |-> 0]
    /\ last_reading = [d \in Devices |-> "none"]
    /\ last = [handler |-> "none"]
    /\ ack_failed = {}
    /\ sensor_data = {}
    /\ two_week = {}
    /\ now = FirstNow
    /\ handled = [d \in Devices |-> {}]
    /\ rollup_count = [d \in Devices |-> [h \in HourBuckets |-> 0]]
    /\ one_at_a_time = TRUE
    /\ in_order = TRUE
    /\ inflight = {}

\* a user onboards a device: the Mapping Entry is created
Onboard(item) ==
    /\ QueryDeviceIndex(mapping_table, item.deviceID) = {}
    /\ Len(stream) < MaxStream
    /\ mapping_table' = mapping_table \cup {item}
    /\ stream' = Append(stream, InsertRecord(item))
    /\ last_reading' = [last_reading EXCEPT ![item.deviceID] = "none"]
    /\ last' = [handler |-> "onboard", item |-> item]
    /\ UNCHANGED <<queue, next_handle, emails, ack_failed>>
    /\ UNCHANGED <<inflight, rollup_vars>>

\* data_stream_error_check.lambda_handler(event)
ErrorCheck(event) ==
    \E user_mapping \in get_user_mapping_by_device_id(mapping_table, event.topic[4]) :
        LET r == error_check_handler(mapping_table, event, user_mapping)
        IN  /\ Len(stream) < MaxStream
            /\ mapping_table' = r.table
            /\ stream' = stream \o r.records
            /\ last_reading' =
                   IF {"temp", "hum"} \subseteq DOMAIN event /\ DOMAIN user_mapping # {}
                   THEN [last_reading EXCEPT ![event.topic[4]] =
                            IF ReadingWithinBounds(event) THEN "valid" ELSE "invalid"]
                   ELSE last_reading
            /\ last' = [handler |-> "error_check", event |-> event,
                        user_mapping |-> user_mapping, records |-> r.records,
                        calls |-> r.calls, result |-> r.result]
            /\ UNCHANGED <<queue, next_handle, emails, ack_failed>>
            /\ UNCHANGED <<inflight, rollup_vars>>

\* the readings of the interleaved invocations: one within bounds and one
\* out of bounds for each device
RaceEvents ==
    { e \in ReadingEvents : /\ {"temp", "hum"} \subseteq DOMAIN e
                            /\ e.temp \in {Num(LOWER_TEMP_LIMIT, 0), Num(90, 0)}
                            /\ e.hum = Num(50, 0) }

\* data_stream_error_check.lambda_handler(event) up to the query of the
\* Mapping Entry: the invocation holds the item it got
ErrorCheckRead(event) ==
    /\ Cardinality(inflight) < MaxInflight
    /\ \E user_mapping \in get_user_mapping_by_device_id(mapping_table, event.topic[4]) :
       \E id \in 1..MaxInflight :
           /\ \A inv \in inflight : inv.id # id
           /\ inflight' = inflight \cup
                  {[id |-> id, event |-> event, user_mapping |-> user_mapping]}
           /\ last' = [handler |-> "error_check_read", event |-> event,
                       user_mapping |-> user_mapping]
    /\ UNCHANGED <<mapping_table, stream, last_reading, queue, next_handle, emails,
                   ack_failed>>
    /\ UNCHANGED rollup_vars

\* the rest of the invocation: the conditional write, decided on the item
\* the invocation read
ErrorCheckWrite(inv) ==
    \E r \in {error_check_handler(mapping_table, inv.event, inv.user_mapping)} :
        /\ inv \in inflight
        /\ Len(stream) + Len(r.records) <= MaxStream
        /\ inflight' = inflight \ {inv}
        /\ mapping_table' = r.table
        /\ stream' = stream \o r.records
        /\ last_reading' =
               IF DOMAIN inv.user_mapping # {}
               THEN [last_reading EXCEPT ![inv.event.topic[4]] =
                        IF ReadingWithinBounds(inv.event) THEN "valid" ELSE "invalid"]
               ELSE last_reading
        /\ last' = [handler |-> "error_check", event |-> inv.event,
                    user_mapping |-> inv.user_mapping, records |-> r.records,
                    calls |-> r.calls, result |-> r.result]
        /\ UNCHANGED <<queue, next_handle, emails, ack_failed>>
        /\ UNCHANGED rollup_vars

ErrorCheckReadStep == \E event \in RaceEvents : ErrorCheckRead(event)

ErrorCheckWriteStep == \E inv \in inflight : ErrorCheckWrite(inv)

\* the effect of notify_customer_check.lambda_handler(event) on the queue
NotifyCheck(event) ==
    LET calls == notify_check_handler(event)
    IN  /\ next_handle <= MaxMsgs
        /\ queue' = queue \cup { [receiptHandle |-> next_handle, body |-> calls[i].body]
                                     : i \in DOMAIN calls }
        /\ next_handle' = next_handle + Len(calls)
        /\ last' = [handler |-> "notify_check", event |-> event,
                    calls |-> calls, result |-> "ok"]
        /\ UNCHANGED <<mapping_table, emails, last_reading, ack_failed>>
        /\ UNCHANGED <<inflight, rollup_vars>>

\* the stream delivers its oldest records to the Notification Trigger
NotifyStream ==
    \E n \in 1..Min(MaxBatch, Len(stream)) :
        /\ NotifyCheck([Records |-> SubSeq(stream, 1, n)])
        /\ stream' = SubSeq(stream, n + 1, Len(stream))

\* the Notification Trigger is invoked with a change event
NotifyEvent ==
    \E event \in ChangeEvents :
        /\ NotifyCheck(event)
        /\ UNCHANGED stream

\* the handles whose delete_message failed after their email had been sent
AckFailedIn(calls) ==
    { calls[i].handle : i \in { k \in DOMAIN calls :
          /\ calls[k].op = "delete_message" /\ ~calls[k].ok
          /\ \E j \in 1..(k - 1) : /\ calls[j].op = "send_raw_email"
                                    /\ calls[j].handle = calls[k].handle
                                    /\ calls[j].ok } }

\* emailer.lambda_handler(event): the queue delivers a batch of its messages.
\* A message with MaxSends emails sent is only delivered once more, on an
\* invocation in which the mail and the queue service both succeed.
EmailerRun(batch, outcomes) ==
    \E r \in {emailer_handler([Records |-> batch], queue, emails, outcomes)} :
        /\ \A i \in 1..Len(batch) :
               \/ emails[batch[i].receiptHandle] < MaxSends
               \/ (outcomes[i].send /\ outcomes[i].delete)
        /\ queue' = r.queue
        /\ emails' = r.emails
        /\ ack_failed' = ack_failed \cup AckFailedIn(r.calls)
        /\ last' = [handler |-> "emailer", event |-> [Records |-> batch],
                    queue |-> queue, emails |-> emails,
                    calls |-> r.calls, result |-> r.result]
        /\ UNCHANGED <<mapping_table, inflight, stream, next_handle, last_reading>>
        /\ UNCHANGED <<inflight, rollup_vars>>

Emailer ==
    \E batch \in Batches(queue, MaxBatch) :
        \E outcomes \in [1..Len(batch) -> Outcomes] : EmailerRun(batch, outcomes)

\* the message with receipt handle h is delivered on its own and both the mail
\* service and the queue service accept the calls
EmailerOk(h) ==
    \E m \in queue :
        /\ m.receiptHandle = h
        /\ EmailerRun(<<m>>, [i \in {1} |-> [send |-> TRUE, delete |-> TRUE]])

\* users whose entries can raise a request; "u3" is not in the user directory
QueueUsers == Users \cup {"u3"}

\* the change event of a no-error -> error modification of an entry of user u
RaiseEvent(u) ==
    [Records |-> <<ModifyRecord(
        [userID |-> u, deviceID |-> "AAAA", error_msg |-> ""],
        [userID |-> u, deviceID |-> "AAAA", error_msg |-> SENSOR_ERROR_MSG])>>]

\* the Notification Trigger handles a new error of some user's entry
NotifyRaise ==
    \E u \in QueueUsers :
        /\ NotifyCheck(RaiseEvent(u))
        /\ UNCHANGED stream

\* data_stream_ota_sync.lambda_handler(event), version.txt holding version_file
OtaSync(event, version_file) ==
    LET r == ota_sync_handler(mapping_table, event, version_file, now)
    IN  /\ mapping_table' = r.table
        /\ stream' = stream \o r.records
        /\ last' = [handler |-> "ota_sync", event |-> event,
                    version_file |-> version_file,
                    user_mapping |-> QueryDeviceIndex(mapping_table,
                                                      event.topic[Len(event.topic)]),
                    calls |-> r.calls, result |-> r.result]
        /\ UNCHANGED <<queue, next_handle, emails, last_reading, ack_failed>>
        /\ UNCHANGED <<inflight, rollup_vars>>

OtaSyncStep ==
    \E event \in VersionEvents, version_file \in VersionFiles : OtaSync(event, version_file)

\* the ingest rule stores a reading in the reading table
StoreReading(item) ==
    /\ Cardinality(sensor_data) < MaxStored
    /\ \A p \in sensor_data :
           ~(p.deviceID = item.deviceID /\ p.timestamp = item.timestamp)
    /\ sensor_data' = sensor_data \cup {item}
    /\ last' = [handler |-> "store", item |-> item]
    /\ UNCHANGED <<mapping_table, inflight, stream, queue, next_handle, emails, last_reading,
                   ack_failed, two_week, now, hist_vars>>

StoreStep == \E item \in StoredReadings : StoreReading(item)

\* the effect of data_stream_two_week_writer.lambda_handler(event), r being
\* what the handler returns and does
TwoWeekRun(event, r) ==
    /\ two_week' = r.two_week
    /\ last' = [handler |-> "two_week", event |-> event, two_week |-> two_week,
                now |-> now, last_data_point |-> r.last_data_point,
                hour_of_data |-> r.hour_of_data, summary |-> r.summary,
                calls |-> r.calls, result |-> r.result]
    /\ UNCHANGED <<mapping_table, inflight, stream, queue, next_handle, emails, last_reading,
                   ack_failed, sensor_data, now>>

\* data_stream_two_week_writer.lambda_handler(event)
TwoWeekWriter(event) ==
    \E r \in {two_week_handler(sensor_data, two_week, event, now)} :
        TwoWeekRun(event, r) /\ UNCHANGED hist_vars

\* the timestamps of the stored readings of a device
StoredTimes(d) == { p.timestamp : p \in { q \in sensor_data : q.deviceID = d } }

\* the hour buckets an invocation wrote an aggregate for
HoursWritten(r) ==
    IF \E i \in DOMAIN r.calls : r.calls[i].op = "put_item"
    THEN { r.calls[i].start \div 3600 :
               i \in { j \in DOMAIN r.calls : r.calls[j].op = "query_between" } }
    ELSE {}

\* the same invocation, with the history of the device's readings kept: a
\* reading is handled one at a time when the stored readings of the device
\* are the ones handled before it (and maybe itself), in order when it is
\* also newer than all of them
TwoWeekCounted(event) ==
    \E r \in {two_week_handler(sensor_data, two_week, event, now)} :
        LET d == event.topic[4]
            t == event.timestamp
            alone == t \notin handled[d] /\ StoredTimes(d) \ {t} = handled[d]
        IN  /\ TwoWeekRun(event, r)
            /\ \A h \in HoursWritten(r) : rollup_count[d][h] < MaxRollups
            /\ IF {"temp", "hum"} \subseteq DOMAIN event
               THEN /\ handled' = [handled EXCEPT ![d] = @ \cup {t}]
                    /\ rollup_count' =
                           [rollup_count EXCEPT ![d] =
                               [h \in HourBuckets |->
                                   IF h \in HoursWritten(r) THEN @[h] + 1 ELSE @[h]]]
                    /\ one_at_a_time' = (one_at_a_time /\ alone)
                    /\ in_order' = (in_order /\ alone /\ \A u \in handled[d] : u < t)
               ELSE UNCHANGED hist_vars

\* the ingest rule stores a valid reading
StoreValid ==
    \E item \in { p \in StoredReadings : p.temp = Num(22, 0) } : StoreReading(item)

\* the events of that history: any of one device, and those of two
\* timestamps of another
HourEvents ==
    { e \in TimedEvents : e.topic[4] = "AAAA" \/ e.timestamp \in {3700, 7200} }

TwoWeekCountedStep == \E event \in HourEvents : TwoWeekCounted(event)

TwoWeekStep == \E event \in TimedEvents : TwoWeekWriter(event)

\* the messages of a set of events that lack temp or hum
PartialEvents(events) == { e \in events : ~({"temp", "hum"} \subseteq DOMAIN e) }

\* the ingest rule stores a valid reading of the hour before those messages
StoreEarlier ==
    \E item \in { p \in StoredReadings : p.timestamp = 3700 /\ p.temp = Num(22, 0) } :
        StoreReading(item)

\* a message without temp or hum reaches the Error State Tracker
PartialErrorCheck == \E event \in PartialEvents(ReadingEvents) : ErrorCheck(event)

\* a message without temp or hum reaches the Aggregator
PartialTwoWeek == \E event \in PartialEvents(TimedEvents) : TwoWeekWriter(event)

\* an hour passes on the wall clock
Tick ==
    /\ now < FirstNow + MaxHours * 3600
    /\ now' = now + 3600
    /\ UNCHANGED <<mapping_table, inflight, stream, queue, next_handle, emails, last_reading,
                   last, ack_failed, sensor_data, two_week, hist_vars>>

OnboardStep == \E u \in Users, d \in Devices :
                   \E item \in ItemsOf(u, d, {"", SENSOR_ERROR_MSG}) : Onboard(item)

ErrorCheckStep == \E event \in ReadingEvents : ErrorCheck(event)

\* the pipeline from readings to emails
Next == OnboardStep \/ ErrorCheckStep \/ NotifyStream \/ Emailer

Spec == Init /\ [][Next]_vars

\* the Notification Trigger on arbitrary change events
NextTrigger == NotifyEvent

SpecTrigger == Init /\ [][NextTrigger]_vars

\* the Notification Dispatcher on a queue of requests
NextDispatch == NotifyRaise \/ Emailer

SpecDispatch == Init /\ [][NextDispatch]_vars

\* the message with receipt handle h is in the queue
InQueue(h) == \E m \in queue : m.receiptHandle = h

\* Weak fairness of EmailerOk(h), with its enabling condition written out:
\* EmailerOk(h) can be taken exactly when h is queued, and taking it changes
\* the queue.  A message that stays queued is eventually delivered on an
\* invocation in which the mail and the queue service both succeed.
FairRedelivery(h) == []<>(~InQueue(h)) \/ []<><<EmailerOk(h)>>_vars

\* redelivery is fair and the mail and queue services eventually succeed
SpecDispatchFair ==
    SpecDispatch /\ \A h \in 1..MaxMsgs : FairRedelivery(h)

\* the Firmware Reconciler on version reports of onboarded and unknown devices
NextOta == OnboardStep \/ OtaSyncStep

SpecOta == Init /\ [][NextOta]_vars

\* the Hourly Rollup Aggregator on stored readings
\* the reading handlers on messages that lack temp or hum, with devices
\* onboarded and readings stored
NextPartial == OnboardStep \/ StoreEarlier \/ PartialErrorCheck \/ PartialTwoWeek

SpecPartial == Init /\ [][NextPartial]_vars

\* interleaved invocations of the Error State Tracker on onboarded devices
NextRace == OnboardStep \/ ErrorCheckReadStep \/ ErrorCheckWriteStep

SpecRace == Init /\ [][NextRace]_vars

\* the Aggregator and the ingest rule on valid readings, with the history
NextHours == StoreValid \/ TwoWeekCountedStep

SpecHours == Init /\ [][NextHours]_vars

NextRollup == StoreStep \/ TwoWeekStep \/ Tick

SpecRollup == Init /\ [][NextRollup]_vars

\* ------------------------------------------------------------------------
\* Vocabulary of the properties
\* ------------------------------------------------------------------------
FullReading(event) == {"temp", "hum"} \subseteq DOMAIN event

\* the last invocation was the Error State Tracker on a reading with both
\* sensor values, for a device that has a Mapping Entry
TrackedReading ==
    /\ last.handler = "error_check"
    /\ FullReading(last.event)
    /\ DOMAIN last.user_mapping # {}

HasError(item) == "error_msg" \in DOMAIN item /\ item.error_msg # ""

\* the Mapping Entry of key (u, d), as it is stored now
EntryOf(u, d) == { it \in mapping_table : it.userID = u /\ it.deviceID = d }

EntryHolds(u, d, msg) ==
    \E it \in EntryOf(u, d) : "error_msg" \in DOMAIN it /\ it.error_msg = msg

RequestFor(u) == [op |-> "send_message", body |-> [cognitoID |-> u]]

FirstRecord == last.event.Records[1]

IsModify(rec) == rec.eventName = "MODIFY"

\* the error_msg of an image as a string, absent read as empty
MsgOf(image) == IF "error_msg" \in DOMAIN image THEN image.error_msg.S ELSE ""

\* a modification that raises a new error: empty or absent to non-empty, or
\* one non-empty message to a different one
RaisesError(rec) ==
    /\ IsModify(rec)
    /\ MsgOf(rec.dynamodb.NewImage) # ""
    /\ MsgOf(rec.dynamodb.OldImage) # MsgOf(rec.dynamodb.NewImage)

\* ------------------------------------------------------------------------
\* C1: for an onboarded device whose entry is healthy, an out-of-bounds
\* reading leaves error_msg = 'An error occurred with a sensor' and one change
\* record; that change record yields exactly one Notification Request for the
\* device's user; an out-of-bounds reading on an entry that already holds the
\* message adds no change record, hence no further request.
\* ------------------------------------------------------------------------
C1_OneNotificationPerErrorTransition ==
    /\ (TrackedReading /\ ~ReadingWithinBounds(last.event)
            /\ ~HasError(last.user_mapping))
       => /\ EntryHolds(last.user_mapping.userID, last.user_mapping.deviceID,
                        SENSOR_ERROR_MSG)
          /\ Len(last.records) = 1
          /\ RaisesError(last.records[1])
    /\ (TrackedReading /\ ~ReadingWithinBounds(last.event)
            /\ HasError(last.user_mapping)
            /\ last.user_mapping.error_msg = SENSOR_ERROR_MSG)
       => /\ last.records = <<>>
          /\ EntryHolds(last.user_mapping.userID, last.user_mapping.deviceID,
                        SENSOR_ERROR_MSG)
    /\ (last.handler = "notify_check" /\ Len(last.event.Records) = 1
            /\ RaisesError(FirstRecord))
       => last.calls = <<RequestFor(FirstRecord.dynamodb.NewImage.userID.S)>>

\* ------------------------------------------------------------------------
\* C2: once a reading has been processed for a device that has a Mapping
\* Entry, the entry's error_msg is non-empty if and only if the most recently
\* processed reading was outside the validity bounds.
\* ------------------------------------------------------------------------
C2_ErrorMsgTracksLastReading ==
    \A it \in mapping_table :
        last_reading[it.deviceID] # "none"
        => (HasError(it) <=> last_reading[it.deviceID] = "invalid")

\* ------------------------------------------------------------------------
\* C3: check_for_errors reports a reading valid (no error, empty message) if
\* and only if T_low <= temp < T_high and H_low <= hum < H_high, non-integer
\* values included.
\* ------------------------------------------------------------------------
C3_ValidIffWithinBounds ==
    (last.handler = "error_check" /\ FullReading(last.event))
    => LET chk == check_for_errors(last.event.topic[4], last.event)
       IN  /\ (~chk.error) <=> ReadingWithinBounds(last.event)
           /\ (chk.msg = "") <=> ReadingWithinBounds(last.event)

\* ------------------------------------------------------------------------
\* C4: every out-of-bounds reading of a device that has a Mapping Entry
\* (U, D) writes 'An error occurred with a sensor' to error_msg of (U, D),
\* whatever error_msg held before.
\* ------------------------------------------------------------------------
C4_InvalidReadingAlwaysWrites ==
    (TrackedReading /\ ~ReadingWithinBounds(last.event))
    => /\ last.calls = <<UpdateCall(last.user_mapping.userID,
                                    last.user_mapping.deviceID, SENSOR_ERROR_MSG)>>
       /\ EntryHolds(last.user_mapping.userID, last.user_mapping.deviceID,
                     SENSOR_ERROR_MSG)

\* ------------------------------------------------------------------------
\* C5: a valid reading clears a non-empty error_msg to the empty string and
\* writes nothing when error_msg is already empty or absent; no invocation
\* performs more than one Mapping Store write.
\* ------------------------------------------------------------------------
C5_ValidReadingClearsOnce ==
    /\ (TrackedReading /\ ReadingWithinBounds(last.event))
       => IF HasError(last.user_mapping)
          THEN /\ last.calls = <<UpdateCall(last.user_mapping.userID,
                                            last.user_mapping.deviceID, "")>>
               /\ EntryHolds(last.user_mapping.userID,
                             last.user_mapping.deviceID, "")
          ELSE last.calls = <<>>
    /\ last.handler = "error_check" => Len(last.calls) <= 1

\* ------------------------------------------------------------------------
\* C6: a modification whose old error_msg is non-empty and whose new
\* error_msg is the empty string never emits a Notification Request.
\* ------------------------------------------------------------------------
ClearsError(rec) ==
    /\ IsModify(rec)
    /\ "error_msg" \in DOMAIN rec.dynamodb.OldImage
    /\ rec.dynamodb.OldImage.error_msg.S # ""
    /\ "error_msg" \in DOMAIN rec.dynamodb.NewImage
    /\ rec.dynamodb.NewImage.error_msg.S = ""

C6_ErrorToNoErrorNeverNotifies ==
    (last.handler = "notify_check" /\ ClearsError(FirstRecord))
    => last.calls = <<>>

\* ------------------------------------------------------------------------
\* C7: a modification in which old.error_msg equals new.error_msg (both
\* empty, both the same non-empty message, or both absent) never emits a
\* Notification Request.
\* ------------------------------------------------------------------------
SameErrorMsg(rec) ==
    /\ IsModify(rec)
    /\ ("error_msg" \in DOMAIN rec.dynamodb.OldImage)
           <=> ("error_msg" \in DOMAIN rec.dynamodb.NewImage)
    /\ "error_msg" \in DOMAIN rec.dynamodb.NewImage
           => rec.dynamodb.OldImage.error_msg.S = rec.dynamodb.NewImage.error_msg.S

C7_SameMessageNeverNotifies ==
    (last.handler = "notify_check" /\ SameErrorMsg(FirstRecord))
    => last.calls = <<>>

C7_Witness ==
    /\ last.handler = "notify_check"
    /\ SameErrorMsg(FirstRecord)
    /\ MsgOf(FirstRecord.dynamodb.NewImage) = SENSOR_ERROR_MSG
    /\ last.calls = <<>>

\* ------------------------------------------------------------------------
\* C8: every modification event that raises a new error (empty or absent to
\* non-empty, or one non-empty message to a different one) emits exactly one
\* Notification Request, carrying the user identifier of the modified entry
\* under the field the Dispatcher reads (cognitoID).
\* ------------------------------------------------------------------------
RequestsFor(u) == { i \in DOMAIN last.calls : last.calls[i] = RequestFor(u) }

C8_EveryNewErrorNotifiesOnce ==
    last.handler = "notify_check"
    => \A i \in DOMAIN last.event.Records :
           RaisesError(last.event.Records[i])
           => Cardinality(RequestsFor(last.event.Records[i].dynamodb.NewImage.userID.S))
                  = Cardinality({ j \in DOMAIN last.event.Records :
                        /\ RaisesError(last.event.Records[j])
                        /\ last.event.Records[j].dynamodb.NewImage.userID
                               = last.event.Records[i].dynamodb.NewImage.userID })

\* ------------------------------------------------------------------------
\* C9: a creation event never emits a Notification Request, even when the
\* created entry carries a non-empty error_msg.
\* ------------------------------------------------------------------------
C9_CreationNeverNotifies ==
    (last.handler = "notify_check" /\ FirstRecord.eventName = "INSERT")
    => last.calls = <<>>

C9_Witness ==
    /\ last.handler = "notify_check"
    /\ FirstRecord.eventName = "INSERT"
    /\ MsgOf(FirstRecord.dynamodb.NewImage) = SENSOR_ERROR_MSG
    /\ last.calls = <<>>

\* ------------------------------------------------------------------------
\* C10: the Dispatcher deletes a request only after its email was sent
\* successfully or the request was dropped for an incomplete profile; a
\* request whose send fails is not deleted and remains in the queue.
\* ------------------------------------------------------------------------
IncompleteProfile(cognito_id) ==
    \/ get_user_details_by_cognito_id(cognito_id).given_name = ""
    \/ get_user_details_by_cognito_id(cognito_id).email_address = ""

\* the record of the batch with receipt handle h
RecordOf(h) ==
    CHOOSE r \in { last.event.Records[i] : i \in DOMAIN last.event.Records } :
        r.receiptHandle = h

SentBefore(i, h) ==
    \E j \in 1..(i - 1) :
        /\ last.calls[j].op = "send_raw_email"
        /\ last.calls[j].handle = h
        /\ last.calls[j].ok

C10_AckOnlyAfterSend ==
    last.handler = "emailer"
    => /\ \A i \in DOMAIN last.calls :
              last.calls[i].op = "delete_message"
              => \/ SentBefore(i, last.calls[i].handle)
                 \/ IncompleteProfile(RecordOf(last.calls[i].handle).body.cognitoID)
       /\ \A i \in DOMAIN last.calls :
              (last.calls[i].op = "send_raw_email" /\ ~last.calls[i].ok)
              => /\ RecordOf(last.calls[i].handle) \in queue
                 /\ \A j \in DOMAIN last.calls :
                        ~(last.calls[j].op = "delete_message"
                          /\ last.calls[j].handle = last.calls[i].handle)
       /\ \A m \in last.queue \ queue :
              \E i \in DOMAIN last.calls :
                  last.calls[i] = [op |-> "delete_message",
                                   handle |-> m.receiptHandle, ok |-> TRUE]

\* a batch whose first request was sent and deleted and whose second
\* request's send failed
C10_Witness ==
    /\ last.handler = "emailer"
    /\ Len(last.event.Records) = 2
    /\ last.result = "ClientError"
    /\ SentBefore(Len(last.calls), last.event.Records[1].receiptHandle)
    /\ last.event.Records[1] \notin queue
    /\ last.event.Records[2] \in queue
    /\ last.calls[Len(last.calls)].op = "send_raw_email"
    /\ ~last.calls[Len(last.calls)].ok

\* ------------------------------------------------------------------------
\* C11: when the contact details resolved for a request have an empty name
\* or an empty address (an unknown user included), the Dispatcher sends no
\* email, acknowledges the request, and the request is never redelivered.
\* ------------------------------------------------------------------------
\* how many records of the batch the last invocation handled
Handled ==
    IF last.result = "ok"
    THEN Len(last.event.Records)
    ELSE CHOOSE i \in DOMAIN last.event.Records :
             last.event.Records[i].receiptHandle = last.calls[Len(last.calls)].handle

CallsFor(op, h) ==
    { i \in DOMAIN last.calls : last.calls[i].op = op /\ last.calls[i].handle = h }

\* the original statement: the request has left the queue
C11_DroppedAndGone ==
    last.handler = "emailer"
    => \A i \in 1..Handled :
           IncompleteProfile(last.event.Records[i].body.cognitoID)
           => /\ CallsFor("send_raw_email", last.event.Records[i].receiptHandle) = {}
              /\ CallsFor("delete_message", last.event.Records[i].receiptHandle) # {}
              /\ last.event.Records[i] \notin queue

\* the state after an invocation: no email for an incomplete profile, one
\* delete call, and the request has left the queue iff that call succeeded
DroppedOnce ==
    last.handler = "emailer"
    => \A i \in 1..Handled :
           IncompleteProfile(last.event.Records[i].body.cognitoID)
           => LET h == last.event.Records[i].receiptHandle
              IN  /\ CallsFor("send_raw_email", h) = {}
                  /\ emails[h] = 0
                  /\ Cardinality(CallsFor("delete_message", h)) = 1
                  /\ \A k \in CallsFor("delete_message", h) :
                         last.calls[k].ok <=> last.event.Records[i] \notin queue

\* only messages with a fresh receipt handle enter the queue
NoReturn ==
    \A m \in queue' \ queue :
        /\ m.receiptHandle >= next_handle
        /\ m.receiptHandle < next_handle'

\* amended: the acknowledgment is attempted once and, when it succeeds, the
\* request leaves the queue for good
C11_DroppedWhenAcked == [][NoReturn /\ DroppedOnce']_vars

\* an unknown user's request was dropped and acknowledged without an email
C11_Witness ==
    /\ last.handler = "emailer"
    /\ \E i \in 1..Handled :
           /\ last.event.Records[i].body.cognitoID \notin DOMAIN UserPool
           /\ last.event.Records[i] \notin queue
           /\ emails[last.event.Records[i].receiptHandle] = 0

\* ------------------------------------------------------------------------
\* C12: under fair redelivery and mail and queue services that eventually
\* succeed, every request for a user with complete contact details eventually
\* results in at least one sent email and is eventually removed from the
\* queue; no request leaves the queue without having been acknowledged.
\* ------------------------------------------------------------------------
CompleteUsers == { u \in QueueUsers : ~IncompleteProfile(u) }

Queued(h, u) == [body |-> [cognitoID |-> u], receiptHandle |-> h] \in queue

\* every message that leaves the queue in a step was deleted by a successful
\* delete_message call of that step's invocation
LeavesOnlyAcked ==
    \A m \in queue \ queue' :
        \E k \in DOMAIN last'.calls :
            /\ last'.calls[k].op = "delete_message"
            /\ last'.calls[k].handle = m.receiptHandle
            /\ last'.calls[k].ok

\* FairRedelivery(h) is weak fairness of EmailerOk(h): that action is enabled
\* exactly in the states where h is queued
RedeliveryEnabled ==
    \A h \in 1..MaxMsgs : InQueue(h) <=> ENABLED <<EmailerOk(h)>>_vars

C12_EventuallyEmailedAndRemoved ==
    /\ []RedeliveryEnabled
    /\ \A h \in 1..MaxMsgs : \A u \in CompleteUsers :
           Queued(h, u) ~> (emails[h] >= 1 /\ ~Queued(h, u))
    /\ [][LeavesOnlyAcked]_vars

\* the last invocation removed a request of a complete profile from the
\* queue, with an email sent for it
C12_Witness ==
    /\ last.handler = "emailer"
    /\ last.result = "ok"
    /\ \E h \in 1..MaxMsgs : \E u \in CompleteUsers :
           /\ ~Queued(h, u)
           /\ [body |-> [cognitoID |-> u], receiptHandle |-> h] \in last.queue
           /\ emails[h] >= 1

\* ------------------------------------------------------------------------
\* C13: a queue delete that fails after a successful send does not fail the
\* invocation and leaves the request queued; its redelivery sends a second
\* email; with no failed acknowledgment a request produces at most one email.
\* ------------------------------------------------------------------------
\* a failed delete is not what ends an invocation, and its message stays queued
AckFailureSwallowed ==
    /\ last.result # "ok"
       => /\ last.calls[Len(last.calls)].op = "send_raw_email"
          /\ ~last.calls[Len(last.calls)].ok
    /\ \A k \in DOMAIN last.calls :
           (last.calls[k].op = "delete_message" /\ ~last.calls[k].ok)
           => /\ RecordOf(last.calls[k].handle) \in queue
              /\ k < Len(last.calls) => last.calls[k + 1].handle # last.calls[k].handle

\* a redelivered request whose email was already sent is sent again
RedeliverySendsAgain ==
    \A i \in 1..Handled :
        LET h == last.event.Records[i].receiptHandle
        IN  last.emails[h] >= 1
            => /\ Cardinality(CallsFor("send_raw_email", h)) = 1
               /\ \A k \in CallsFor("send_raw_email", h) :
                      last.calls[k].ok => emails[h] = last.emails[h] + 1

C13_DuplicateOnlyAfterFailedAck ==
    /\ last.handler = "emailer" => AckFailureSwallowed /\ RedeliverySendsAgain
    /\ \A h \in 1..MaxMsgs : emails[h] >= 2 => h \in ack_failed

\* a second email went out for a request whose delete had failed
C13_Witness ==
    /\ last.handler = "emailer"
    /\ last.result = "ok"
    /\ \E i \in 1..Handled :
           LET h == last.event.Records[i].receiptHandle
           IN  /\ last.emails[h] = 1
               /\ emails[h] = 2
               /\ h \in ack_failed

\* ------------------------------------------------------------------------
\* C14: every version report that carries a version string gets exactly one
\* instruction: the OTA instruction, with a 300-second credential, iff the
\* reported string differs from the target string, the time-sync instruction
\* iff the two are equal.
\* ------------------------------------------------------------------------
VersionReport == last.handler = "ota_sync" /\ "version" \in DOMAIN last.event

TargetVersion == get_latest_version(last.version_file)

IsOta(call) ==
    /\ call.op = "publish"
    /\ DOMAIN call.payload = {"ota"}
    /\ call.payload.ota.ExpiresIn = 300

IsTimeSync(call) ==
    /\ call.op = "publish"
    /\ DOMAIN call.payload = {"time"}
    /\ call.payload.time = now

C14_ExactlyOneInstruction ==
    VersionReport
    => /\ Len(last.calls) = 1
       /\ IsOta(last.calls[1]) <=> last.event.version # TargetVersion
       /\ IsTimeSync(last.calls[1]) <=> last.event.version = TargetVersion

\* a report equal to the target only once version.txt's line end is stripped
\* got the time sync
C14_Witness ==
    /\ VersionReport
    /\ last.version_file # last.event.version
    /\ Len(last.calls) = 1
    /\ IsTimeSync(last.calls[1])

\* ------------------------------------------------------------------------
\* C15: when the reported version equals the target and the device has a
\* Mapping Entry, after the invocation that entry's last_reported_version is
\* the reported version and its error_msg is unchanged.
\* ------------------------------------------------------------------------
C15_ReportedVersionPersisted ==
    (VersionReport /\ last.event.version = TargetVersion)
    => \A e \in last.user_mapping :
           \E e2 \in mapping_table :
               /\ e2.userID = e.userID /\ e2.deviceID = e.deviceID
               /\ "last_reported_version" \in DOMAIN e2
               /\ e2.last_reported_version = last.event.version
               /\ e2.error_msg = e.error_msg

\* ------------------------------------------------------------------------
\* C16: the instruction for a report on iot/version/<protocol version>/<device
\* id> is published to iot/commands/<device id>, the trailing topic segment.
\* ------------------------------------------------------------------------
C16_InstructionToReportingDevice ==
    (VersionReport /\ Len(last.event.topic) = 4)
    => \A i \in DOMAIN last.calls :
           last.calls[i].topic = CommandTopic(last.event.topic[4])

\* ------------------------------------------------------------------------
\* C17: the Aggregator writes nothing and raises no error when the device has
\* no stored reading older than the new one, or when the new reading and the
\* previous point are in the same hour bucket.
\* ------------------------------------------------------------------------
\* the last invocation of the Aggregator got a reading with temp and hum
RollupRun ==
    last.handler = "two_week" /\ {"temp", "hum"} \subseteq DOMAIN last.event

Hour(t) == t \div 3600

\* the stored readings of the reading's device older than the reading
StoredBefore ==
    { p \in sensor_data : /\ p.deviceID = last.event.topic[4]
                          /\ p.timestamp < last.event.timestamp }

\* the previous point: the newest of them
PrevPoint ==
    CHOOSE p \in StoredBefore : \A q \in StoredBefore : q.timestamp <= p.timestamp

NewHour ==
    StoredBefore # {} /\ Hour(last.event.timestamp) > Hour(PrevPoint.timestamp)

PutCalls == { i \in DOMAIN last.calls : last.calls[i].op = "put_item" }

QueryCalls == { i \in DOMAIN last.calls : last.calls[i].op = "query_between" }

C17_NoRollupWithoutNewHour ==
    (RollupRun /\ ~NewHour)
    => /\ last.calls = <<>>
       /\ two_week = last.two_week
       /\ last.result = "ok"

\* a reading in the hour of the device's previous point was handled
C17_Witness ==
    /\ RollupRun
    /\ StoredBefore # {}
    /\ Hour(last.event.timestamp) = Hour(PrevPoint.timestamp)
    /\ last.two_week # {}
    /\ two_week = last.two_week

\* ------------------------------------------------------------------------
\* C18: when the reading's hour bucket is greater than the previous point's,
\* the invocation makes exactly one rollup attempt, for the hour that holds
\* the previous point, and writes at most one Hourly Aggregate.
\* ------------------------------------------------------------------------
C18_OneRollupOfPreviousHour ==
    (RollupRun /\ NewHour)
    => /\ Cardinality(QueryCalls) = 1
       /\ \A i \in QueryCalls :
              /\ last.calls[i].start = Hour(PrevPoint.timestamp) * 3600
              /\ last.calls[i].end = last.calls[i].start + 3600
       /\ Cardinality(PutCalls) <= 1
       /\ Cardinality(two_week \ last.two_week) <= 1
       /\ last.result = "ok"

\* hours were skipped between the previous point and the reading, and the
\* previous point's hour was written
C18_Witness ==
    /\ RollupRun
    /\ NewHour
    /\ Hour(last.event.timestamp) > Hour(PrevPoint.timestamp) + 1
    /\ Cardinality(PutCalls) = 1

\* ------------------------------------------------------------------------
\* C19: every reading that contributes to a rollup has its timestamp in
\* [hour(prev.t)*3600, hour(prev.t)*3600 + 3600): a stored reading at the
\* window end is not part of the closed hour's average.
\* ------------------------------------------------------------------------
Contributing == { p \in last.hour_of_data : inside_limits(p) }

C19_WindowHalfOpen ==
    (RollupRun /\ NewHour)
    => \A p \in Contributing :
           /\ Hour(PrevPoint.timestamp) * 3600 <= p.timestamp
           /\ p.timestamp < Hour(PrevPoint.timestamp) * 3600 + 3600

\* ------------------------------------------------------------------------
\* C20: the Aggregator's validity filter agrees with the Error State
\* Tracker's decision on every fetched reading, and the averages are the
\* means over exactly the readings that pass it.
\* ------------------------------------------------------------------------
\* the Tracker's decision on a stored reading
TrackerValid(p) == ~check_for_errors(p.deviceID, p).error

C20_SameFilterAndMeans ==
    (RollupRun /\ NewHour)
    => /\ \A p \in last.hour_of_data : inside_limits(p) <=> TrackerValid(p)
       /\ LET valid == { p \in last.hour_of_data : TrackerValid(p) }
          IN  IF valid = {} THEN last.summary = EmptyDict
              ELSE /\ DOMAIN last.summary = {"temp", "hum"}
                   /\ last.summary.temp.num = SumTenths(valid, "temp")
                   /\ last.summary.temp.den = 10 * Cardinality(valid)
                   /\ last.summary.hum.num = SumTenths(valid, "hum")
                   /\ last.summary.hum.den = 10 * Cardinality(valid)

\* ------------------------------------------------------------------------
\* C21: when every reading fetched for the closed hour is out of bounds (or
\* the window is empty), the invocation writes no Hourly Aggregate and does
\* not fail.
\* ------------------------------------------------------------------------
C21_AllOutOfBoundsWritesNothing ==
    (RollupRun /\ NewHour /\ \A p \in last.hour_of_data : ~ReadingWithinBounds(p))
    => /\ PutCalls = {}
       /\ two_week = last.two_week
       /\ last.result = "ok"

\* ------------------------------------------------------------------------
\* C22: an Hourly Aggregate, once written, is never changed or replaced by a
\* later invocation of the Aggregator: every aggregate that existed before
\* an invocation is still there, unchanged, after it.
\* ------------------------------------------------------------------------
C22_AggregatesNeverReplaced ==
    last.handler = "two_week" => last.two_week \subseteq two_week

\* ------------------------------------------------------------------------
\* C23: every Hourly Aggregate written has as key timestamp the wall-clock
\* time of the write rounded down to the hour, an expiry of the key
\* timestamp plus 1,209,600 seconds, the average temperature rounded to two
\* decimals and the average humidity rounded to the nearest integer.
\* ------------------------------------------------------------------------
\* |a - b|
Dist(a, b) == IF a < b THEN b - a ELSE a - b

\* value is one of the integers nearest to num / den
Nearest(value, num, den) == 2 * Dist(num, value * den) <= den

C23_AggregateFields ==
    /\ \A item \in two_week :
           /\ item.timestamp % 3600 = 0
           /\ item.timestamp <= now
           /\ item.expiretimestamp = item.timestamp + 1209600
    /\ (RollupRun /\ PutCalls # {})
       => \A i \in PutCalls :
              LET item == last.calls[i].Item
              IN  /\ item \in two_week
                  /\ item.timestamp <= last.now
                  /\ last.now < item.timestamp + 3600
                  /\ Nearest(item.temp, 100 * last.summary.temp.num,
                             last.summary.temp.den)
                  /\ Nearest(item.hum, last.summary.hum.num, last.summary.hum.den)

\* an aggregate was written an hour after the first clock reading, and
\* the average humidity was not a whole number
C23_Witness ==
    /\ RollupRun
    /\ PutCalls # {}
    /\ last.now >= FirstNow + 3600
    /\ last.summary.hum.num % last.summary.hum.den # 0
    /\ \A i \in PutCalls : last.calls[i].Item.timestamp = 10800

\* ------------------------------------------------------------------------
\* C24: a reading event that lacks temp or hum causes no Mapping Store
\* write, no Rollup Store write and no Notification Request, and both
\* reading handlers complete without failure.
\* ------------------------------------------------------------------------
PartialReading ==
    last.handler \in {"error_check", "two_week"} /\ ~FullReading(last.event)

C24_PartialReadingIgnored ==
    /\ PartialReading
       => /\ last.calls = <<>>
          /\ last.result = "ok"
          /\ last.handler = "error_check" => last.records = <<>>
          /\ last.handler = "two_week" => two_week = last.two_week
    /\ two_week = {}
    /\ \A i \in DOMAIN stream : stream[i].eventName = "INSERT"

\* the Tracker got an out-of-bounds temperature without hum for a device
\* whose Mapping Entry has no error, while the device has a stored reading
C24_Witness ==
    /\ last.handler = "error_check"
    /\ DOMAIN last.event = {"topic", "temp"}
    /\ last.event.temp = Num(90, 0)
    /\ DOMAIN last.user_mapping # {}
    /\ ~HasError(last.user_mapping)
    /\ \E p \in sensor_data : p.deviceID = last.event.topic[4]

\* ------------------------------------------------------------------------
\* C25: the Error State Tracker, handling a reading (valid or not) of a
\* device that has no Mapping Entry, writes nothing to the Mapping Store,
\* causes no Notification Request and completes without failure.
\* ------------------------------------------------------------------------
\* the last invocation was the Tracker on a full reading of a device that no
\* user has onboarded
UnmappedReading ==
    /\ last.handler = "error_check"
    /\ FullReading(last.event)
    /\ \A item \in mapping_table : item.deviceID # last.event.topic[4]

C25_UnmappedDeviceIgnored ==
    UnmappedReading
    => /\ last.calls = <<>>
       /\ last.records = <<>>
       /\ last.result = "ok"

\* an out-of-bounds reading of a device without Mapping Entry was handled
\* while another device is onboarded
C25_Witness ==
    /\ UnmappedReading
    /\ ~ReadingWithinBounds(last.event)
    /\ mapping_table # {}

\* ------------------------------------------------------------------------
\* C26: an aggregate summarizing the hour window h of device d is only ever
\* written during the invocation for a reading of d whose timestamp is in a
\* later hour bucket than h; as long as no later reading of d is processed,
\* no aggregate of d's last hour is written.
\* ------------------------------------------------------------------------
C26_WrittenOnlyByLaterReading ==
    /\ (RollupRun /\ PutCalls # {})
       => /\ \A i \in QueryCalls :
                 Hour(last.calls[i].start) < Hour(last.event.timestamp)
          /\ \A p \in last.hour_of_data : p.deviceID = last.event.topic[4]
          /\ \A i \in PutCalls : last.calls[i].Item.deviceID = last.event.topic[4]
    /\ \A d \in Devices, h \in HourBuckets :
           rollup_count[d][h] > 0 => \E t \in handled[d] : Hour(t) > h

\* the last hour of a device's readings has no aggregate while an earlier
\* hour of the device has one
C26_Witness ==
    /\ RollupRun
    /\ PutCalls # {}
    /\ LET d == last.event.topic[4]
       IN  /\ rollup_count[d][Hour(last.event.timestamp) - 1] = 1
           /\ rollup_count[d][Hour(last.event.timestamp)] = 0
           /\ \E p \in sensor_data :
                  p.deviceID = d /\ p.timestamp = last.event.timestamp
           /\ \A t \in handled[d] : t <= last.event.timestamp

\* ------------------------------------------------------------------------
\* C27: when the readings of a device are handled one at a time in
\* timestamp order, no closed hour is rolled up twice and none is left
\* out; when two readings are handled before the first of them is stored,
\* the same closed hour is rolled up twice and the hour between is never
\* rolled up.
\* ------------------------------------------------------------------------
\* some hour of some device has more than one aggregate written
RolledUpTwice == \E d \in Devices, h \in HourBuckets : rollup_count[d][h] > 1

\* the hour of a handled reading has no aggregate though a reading of a
\* later hour was handled
HourLeftOut ==
    \E d \in Devices : \E t1, t2 \in handled[d] :
        Hour(t1) < Hour(t2) /\ rollup_count[d][Hour(t1)] = 0

C27_InOrderNoDuplicateNoGap == in_order => ~RolledUpTwice /\ ~HourLeftOut

\* two readings of later hours were both handled against the same previous
\* point: its hour has two aggregates and the hour between has none
C27_Witness ==
    /\ ~one_at_a_time
    /\ handled["AAAA"] = {3700, 7200, 10900}
    /\ rollup_count["AAAA"][1] = 2
    /\ rollup_count["AAAA"][2] = 0

\* ------------------------------------------------------------------------
\* C29: when the readings of a device are handled one at a time, in any
\* order of arrival (a late reading older than readings already handled
\* included), each closed hour of the device is rolled up at most once.
\* ------------------------------------------------------------------------
C29_OneAtATimeNoDuplicate == one_at_a_time => ~RolledUpTwice

\* ------------------------------------------------------------------------
\* C28: when invocations of the Error State Tracker for the same device
\* interleave (each reads the Mapping Entry, then conditionally writes),
\* then once all of them have completed the entry's error_msg is non-empty
\* if and only if the reading of the invocation that completed last was out
\* of bounds.
\* ------------------------------------------------------------------------
\* every invocation has completed, the last one being for a mapped device
AllCompleted ==
    /\ inflight = {}
    /\ last.handler = "error_check"
    /\ DOMAIN last.user_mapping # {}

C28_LastCompletedDecides ==
    AllCompleted
    => \A item \in mapping_table :
           item.deviceID = last.event.topic[4]
           => (HasError(item) <=> ~ReadingWithinBounds(last.event))

\* ------------------------------------------------------------------------
\* C30: an invocation of the Notification Trigger examines only the first
\* record of its batch: what it sends is decided by that record alone,
\* later records are never evaluated, and it emits at most one Notification
\* Request.
\* ------------------------------------------------------------------------
C30_OnlyFirstRecordExamined ==
    last.handler = "notify_check"
    => /\ Len(last.calls) <= 1
       /\ \A i \in DOMAIN last.calls :
              /\ IsModify(FirstRecord)
              /\ last.calls[i] = RequestFor(FirstRecord.dynamodb.NewImage.userID.S)
       /\ (~IsModify(FirstRecord) \/ SameErrorMsg(FirstRecord)) => last.calls = <<>>

\* the batch's second record raised a new error, its first did not, and
\* nothing was sent
C30_Witness ==
    /\ last.handler = "notify_check"
    /\ Len(last.event.Records) = 2
    /\ ~RaisesError(FirstRecord)
    /\ RaisesError(last.event.Records[2])
    /\ last.calls = <<>>

\* ------------------------------------------------------------------------
\* C31: a reading produces at most one Notification Request and the chain
\* reading -> mutation -> request -> email has no feedback loop: the Error
\* State Tracker makes at most one Mapping Store write per reading, hence at
\* most one change record; the Notification Trigger uses up the change
\* records it gets, adds at most one request and never writes the Mapping
\* Store; the Notification Dispatcher writes neither the Mapping Store nor
\* the queue, it only removes requests.
\* ------------------------------------------------------------------------
TrackerStep ==
    last'.handler = "error_check"
    => /\ Len(last'.calls) <= 1
       /\ Len(last'.records) <= 1
       /\ Len(stream') <= Len(stream) + 1
       /\ queue' = queue

TriggerStep ==
    last'.handler = "notify_check"
    => /\ mapping_table' = mapping_table
       /\ Len(stream') < Len(stream)
       /\ Len(last'.calls) <= 1
       /\ queue \subseteq queue'
       /\ Cardinality(queue') <= Cardinality(queue) + 1

DispatcherStep ==
    last'.handler = "emailer"
    => /\ mapping_table' = mapping_table
       /\ stream' = stream
       /\ queue' \subseteq queue

C31_NoFeedbackLoop == [][TrackerStep /\ TriggerStep /\ DispatcherStep]_vars

\* the chain ran to its end: a reading changed the entry, the change record
\* was used up, its request was emailed and acknowledged, nothing is left
C31_Witness ==
    /\ last.handler = "emailer"
    /\ last.result = "ok"
    /\ \E h \in 1..MaxMsgs : emails[h] = 1
    /\ \E d \in Devices : last_reading[d] # "none"
    /\ stream = <<>>
    /\ queue = {}

\* ------------------------------------------------------------------------
\* C32: in the Firmware Reconciler's equal-version path the time-sync
\* instruction is published before the Mapping Entry lookup and the version
\* write are attempted: when the lookup or the write fails, the invocation
\* fails but the instruction has been issued.  In the differing-version path
\* the Mapping Store is neither read nor written.
\* ------------------------------------------------------------------------
\* the invocation failed after its first call
FailedAfterPublish == last.result # "ok" /\ Len(last.calls) >= 1

ReconcilerPaths ==
    VersionReport
    => IF last.event.version = TargetVersion
       THEN /\ last.calls # <<>>
            /\ IsTimeSync(last.calls[1])
            /\ \A i \in DOMAIN last.calls : i > 1 => last.calls[i].op # "publish"
       ELSE /\ last.calls = <<do_ota(last.event.topic[3])>>
            /\ last.result = "ok"

\* a report of a version that differs from the target leaves the Mapping
\* Store and its stream as they were
ReconcilerStep ==
    (/\ last'.handler = "ota_sync"
     /\ "version" \in DOMAIN last'.event
     /\ last'.event.version # get_latest_version(last'.version_file))
    => /\ mapping_table' = mapping_table
       /\ stream' = stream

C32_TimeSyncBeforeLookup == []ReconcilerPaths /\ [][ReconcilerStep]_vars

\* the lookup failed the invocation of an onboarded device's report, and the
\* time sync had been published
C32_Witness ==
    /\ VersionReport
    /\ last.event.version = TargetVersion
    /\ FailedAfterPublish
    /\ IsTimeSync(last.calls[1])
    /\ last.user_mapping # {}

\* ------------------------------------------------------------------------
\* C33: the Dispatcher handles the requests of a batch in order, each one
\* send-then-acknowledge, and when the send for request k fails the
\* invocation fails at once: request k and all later ones are left unsent by
\* this invocation and unacknowledged.  Of the requests before k, each one
\* with a complete profile has been sent, each one has had its one
\* acknowledgement attempted after that, and it has left the queue if and
\* only if that acknowledgement succeeded.
\* ------------------------------------------------------------------------
\* the last invocation of the Dispatcher failed
SendFailed == last.handler = "emailer" /\ last.result # "ok"

\* the calls with outcome ok for the request with receipt handle h
OkCallsFor(op, h) == { i \in CallsFor(op, h) : last.calls[i].ok }

\* the original statement: every request before k has been sent and
\* acknowledged
C33_EarlierSentAndAcked ==
    SendFailed
    => /\ \A i \in 1..(Handled - 1) :
              LET h == last.event.Records[i].receiptHandle
              IN  /\ OkCallsFor("send_raw_email", h) # {}
                  /\ OkCallsFor("delete_message", h) # {}
                  /\ last.event.Records[i] \notin queue
       /\ \A i \in Handled..Len(last.event.Records) :
              LET h == last.event.Records[i].receiptHandle
              IN  /\ OkCallsFor("send_raw_email", h) = {}
                  /\ CallsFor("delete_message", h) = {}
                  /\ last.event.Records[i] \in queue

C33_FailedSendStopsBatch ==
    SendFailed
    => /\ \A i \in 1..(Handled - 1) :
              LET h == last.event.Records[i].receiptHandle
                  sends == CallsFor("send_raw_email", h)
                  deletes == CallsFor("delete_message", h)
              IN  /\ IF IncompleteProfile(last.event.Records[i].body.cognitoID)
                     THEN sends = {}
                     ELSE Cardinality(sends) = 1 /\ OkCallsFor("send_raw_email", h) = sends
                  /\ Cardinality(deletes) = 1
                  /\ \A s \in sends, d \in deletes : s < d
                  /\ last.event.Records[i] \notin queue
                         <=> OkCallsFor("delete_message", h) # {}
                  /\ \A j \in 1..(i - 1) :
                         \A c \in CallsFor("delete_message",
                                           last.event.Records[j].receiptHandle) :
                             \A d \in sends \cup deletes : c < d
       /\ LET h == last.event.Records[Handled].receiptHandle
          IN  /\ CallsFor("send_raw_email", h) = {Len(last.calls)}
              /\ ~last.calls[Len(last.calls)].ok
              /\ CallsFor("delete_message", h) = {}
              /\ emails[h] = last.emails[h]
       /\ \A i \in (Handled + 1)..Len(last.event.Records) :
              LET h == last.event.Records[i].receiptHandle
              IN  /\ CallsFor("send_raw_email", h) = {}
                  /\ CallsFor("delete_message", h) = {}
                  /\ emails[h] = last.emails[h]
       /\ \A i \in Handled..Len(last.event.Records) :
              last.event.Records[i] \in queue

\* the send of the batch's second request failed after the first was sent
\* and acknowledged
C33_Witness ==
    /\ SendFailed
    /\ Len(last.event.Records) = 2
    /\ Handled = 2
    /\ OkCallsFor("send_raw_email", last.event.Records[1].receiptHandle) # {}
    /\ last.event.Records[1] \notin queue
    /\ last.event.Records[2] \in queue

====
